---- MODULE Spec2Model ----
(***************************************************************************)
(* Variational Monte Carlo: the QS orchestrator (quantum_state.py), the    *)
(* VMC wave-function model (qs/models/vmc.py) and the Metropolis sampler   *)
(* (samplers/metropolis.py).                                               *)
(*                                                                         *)
(* Numbers.  Coordinates are integers.  Log-domain quantities (alpha, the  *)
(* log-amplitude, the log-probability) are fixed-point numbers counted in  *)
(* halves: the value 1 stands for 0.5, so the default alpha 0.5 is 1.      *)
(* A uniform draw u in [0,1) is the integer k of u = k / UnifRes.          *)
(* Arrays of rank 2 whose rank never changes (positions) are sequences of  *)
(* rows; logp, whose rank depends on the accept function, is a record      *)
(* [shape, v] with v the row-major data.                                   *)
(***************************************************************************)
EXTENDS Integers, Sequences, FiniteSets, TLC

\* ---------------------------------------------------------------- bounds
MaxN == 2          \* particles: nparticles ranges over 1..MaxN
Dim == 1           \* dimensions of a configuration
MaxCoord == 2      \* proposals are followed while |coordinate| <= MaxCoord
MaxSteps == 2      \* a chain is followed for at most MaxSteps steps
MaxSeed == 1       \* seeds range over 0..MaxSeed
MaxAlpha == 1      \* alpha (in halves) ranges over 0..MaxAlpha, 0 is "not given"
MaxIter == 2       \* max_iter of train ranges over 0..MaxIter
MaxEta == 1        \* eta of the optimizer ranges over 0..MaxEta
MaxBatch == 1      \* batch_size of train ranges over 1..MaxBatch
UnifRes == 4       \* resolution of a uniform draw
MaxDraws == 2      \* generate_normal_matrix is called at most MaxDraws times
MaxBeta == 2       \* beta ranges over 1..MaxBeta

Chains == {1, 2}
Seeds == 0 .. MaxSeed
Backends == {"numpy", "jax", "Numpy"}

\* ---------------------------------------------------------------- state
VARIABLES
    qs,        \* the QS object: its attributes
    alg,       \* QS.alg, the VMC instance: params, rng, state, the sub-keys
               \* it has drawn from so far, the last matrix it returned and
               \* the last wf_eo evaluation
    train,     \* the running train call: its loop counter and what it did
    lastCall,  \* the last call made and the exception it raised, if any
    met,       \* a Metropolis instance: accept_fn, scale
    chain,     \* the chains run with that instance: seed, running count, State
    last,      \* the last step call: its inputs, its draws and what it left
    used       \* the sub-streams derived so far: <<chain, step, seed, delta>>

vars == <<qs, alg, train, lastCall, met, chain, last, used>>

\* ------------------------------------------------------- array helpers
\* an array given by its entries, as a tuple
Arr(f) == SubSeq(f, 1, Len(f))

RECURSIVE SumSeq(_)
SumSeq(s) == IF s = <<>> THEN 0 ELSE Head(s) + SumSeq(Tail(s))

Abs(x) == IF x < 0 THEN -x ELSE x

\* r**2 summed over axis 1: one number per particle
SumSq(row) == SumSeq([j \in 1 .. Len(row) |-> row[j] * row[j]])

\* ------------------------------------------------ jax.random keys
\* A key is a node of the splitting tree; split gives its two children.
PRNGKey(s) == s

Split(key) == <<2 * key + 1, 2 * key + 2>>


\* ------------------------------------- numpy.random.PCG64, Generator
\* The bit generator is a linear congruential generator on one byte; its
\* output is the high half of the state.
LcgNext(x) == (5 * x + 3) % 256

RECURSIVE LcgAdvance(_, _)
LcgAdvance(x, k) == IF k = 0 THEN x ELSE LcgAdvance(LcgNext(x), k - 1)

\* qs.utils.advance_PRNG_state(seed, delta): PCG64(seed).advance(delta)
advance_PRNG_state(s, delta) == LcgAdvance((s * 53 + 17) % 256, delta)

\* the k-th raw output of a generator started in state g
RawOut(g, k) == LcgAdvance(g, k) \div 16

\* jax.random.normal(subkey, (n, d)): a matrix that is a function of the
\* sub-key, one raw output per entry
Normal(subkey, n, d) ==
    [i \in 1 .. n |->
        [j \in 1 .. d |-> (RawOut((subkey * 29 + 13) % 256, (i - 1) * d + j) % 3) - 1]]

\* rng.normal(loc, scale): loc plus scale times a standard normal, one raw
\* output per entry, in row-major order
RngNormal(g, loc, scl) ==
    Arr([i \in 1 .. Len(loc) |->
        Arr([j \in 1 .. Len(loc[i]) |->
            loc[i][j] + scl * ((RawOut(g, (i - 1) * Len(loc[i]) + j) % 3) - 1)])])

\* rng.random(n), drawn from the same generator after the normals
RngRandom(g, drawn, n) == Arr([i \in 1 .. n |-> RawOut(g, drawn + i) % UnifRes])

\* ------------------------------------------------------ np.exp
\* exp(h / 2) in thousandths, h in halves; sqrt(e) = 1.649.  Saturates
\* above (overflow to inf) and reaches 0 below (underflow).
RECURSIVE ExpMilli(_)
ExpMilli(h) ==
    IF h = 0 THEN 1000
    ELSE IF h > 0 THEN (IF h > 12 THEN 1000000 ELSE (ExpMilli(h - 1) * 1649) \div 1000)
    ELSE IF h < -40 THEN 0
    ELSE (ExpMilli(h + 1) * 1000) \div 1649

\* u < np.exp(d)
LessExp(u, d) == u * 1000 < UnifRes * ExpMilli(d)

\* ------------------------------------------------------ VMC (vmc.py)
\* wf_closure: -alpha * sum(r**2, axis=1); alpha has shape (1,)
wf_closure(r, a) == Arr([i \in 1 .. Len(r) |-> -a[1] * SumSq(r[i])])

\* wf_closure_eo: -alpha * (beta**2 * sum(r[:, 0]**2) + sum(r[:, 1:]**2,
\* axis=1)); the first sum has no axis and runs over all the particles
wf_closure_eo(r, a, beta) ==
    LET x2 == SumSeq([k \in 1 .. Len(r) |-> r[k][1] * r[k][1]]) IN
    Arr([i \in 1 .. Len(r) |->
            -a[1] * (beta * beta * x2 + SumSq(SubSeq(r[i], 2, Len(r[i]))))])

\* prob_closure: 2 * log_psi
prob_closure(r, a) ==
    LET log_psi == wf_closure(r, a) IN Arr([i \in 1 .. Len(r) |-> 2 * log_psi[i]])

\* grads_closure on a batch r of shape (B, N, D): one number per batch entry
grads_closure(r, a) ==
    [b \in 1 .. Len(r) |-> SumSeq([i \in 1 .. Len(r[b]) |-> -SumSq(r[b][i])])]

\* _initialize_variational_params: alpha if truthy, else 0.5
InitialParams(a) == IF a # 0 THEN <<a>> ELSE <<1>>

\* _configure_backend
ConfigureBackendOk(b) == b \in {"numpy", "jax"}

\* _initialize_vars: the state built from the instance's key, which is split
\* without being stored back
InitialState(key, n, d, a) ==
    LET subkey == Split(key)[2]
        initial_positions == Normal(subkey, n, d)
    IN  [positions |-> initial_positions,
         logp |-> [shape |-> <<n>>, v |-> prob_closure(initial_positions, a)],
         n_accepted |-> 0,
         delta |-> 0]

\* ------------------------------------------- Metropolis (metropolis.py)
\* __init__: the accept function chosen from the backend; an unsupported
\* backend prints a message and leaves accept_fn unset
AcceptFnOf(b) ==
    IF b = "numpy" THEN "accept_numpy"
    ELSE IF b = "jax" THEN "accept_jax"
    ELSE "unset"

\* accept_numpy: the loop over the particles
accept_numpy(n_accepted, accept, initial_positions, proposed_positions, log_psi_current, log_psi_proposed) ==
    LET n == Len(initial_positions) IN
    [positions |-> [i \in 1 .. n |->
                       IF accept[i] THEN proposed_positions[i] ELSE initial_positions[i]],
     logp |-> [shape |-> <<n>>,
               v |-> [i \in 1 .. n |->
                         IF accept[i] THEN log_psi_proposed[i] ELSE log_psi_current[i]]],
     n_accepted |-> n_accepted + Cardinality({i \in 1 .. n : accept[i]})]

\* accept_jax: accept has shape (N, 1); matmul(accept.T, proposed) and
\* matmul(1 - accept.T, initial) have shape (1, D); where(accept, ., .)
\* broadcasts (N, 1) against (N,) to shape (N, N)
accept_jax(n_accepted, accept, initial_positions, proposed_positions, log_psi_current, log_psi_proposed) ==
    LET n == Len(initial_positions)
        d == Len(initial_positions[1])
        support1 == [j \in 1 .. d |->
            SumSeq([i \in 1 .. n |-> IF accept[i] THEN proposed_positions[i][j] ELSE 0])]
        support2 == [j \in 1 .. d |->
            SumSeq([i \in 1 .. n |-> IF accept[i] THEN 0 ELSE initial_positions[i][j]])]
    IN
    [positions |-> << [j \in 1 .. d |-> support1[j] + support2[j]] >>,
     logp |-> [shape |-> <<n, n>>,
               v |-> [k \in 1 .. n * n |->
                         LET i == ((k - 1) \div n) + 1
                             j == ((k - 1) % n) + 1
                         IN  IF accept[i] THEN log_psi_proposed[j] ELSE log_psi_current[j]]],
     n_accepted |-> Cardinality({i \in 1 .. n : accept[i]})]

\* a step that decides once for the whole configuration
AcceptMask_PerChain(unif, log_accept_prob) ==
    Arr([i \in 1 .. Len(log_accept_prob) |-> LessExp(unif[1], SumSeq(log_accept_prob))])

\* the accept decision of step: one uniform draw per particle
AcceptMask(unif, log_accept_prob) ==
    Arr([i \in 1 .. Len(log_accept_prob) |-> LessExp(unif[i], log_accept_prob[i])])

\* a step that draws from a generator shared by all calls, advanced by the
\* number of steps made so far
StepDraw_SharedGenerator(st, sd, scl, a) ==
    LET initial_positions == st.positions
        n == Len(initial_positions)
        next_gen == advance_PRNG_state(sd, Cardinality(used))
        proposed_positions == RngNormal(next_gen, initial_positions, scl)
        prob_current == prob_closure(initial_positions, a)
        prob_proposed == prob_closure(proposed_positions, a)
        log_accept_prob == Arr([i \in 1 .. n |-> prob_proposed[i] - prob_current[i]])
        unif == RngRandom(next_gen, n * Len(initial_positions[1]), n)
    IN  [proposed |-> proposed_positions,
         prob_current |-> prob_current,
         prob_proposed |-> prob_proposed,
         unif |-> unif,
         gen |-> next_gen,
         accept |-> AcceptMask(unif, log_accept_prob)]

\* step up to the call of accept_fn: the proposal, the two log-probabilities
\* and the accept mask
StepDraw(st, sd, scl, a) ==
    LET initial_positions == st.positions
        n == Len(initial_positions)
        next_gen == advance_PRNG_state(sd, st.delta)
        proposed_positions == RngNormal(next_gen, initial_positions, scl)
        prob_current == prob_closure(initial_positions, a)
        prob_proposed == prob_closure(proposed_positions, a)
        log_accept_prob == Arr([i \in 1 .. n |-> prob_proposed[i] - prob_current[i]])
        unif == RngRandom(next_gen, n * Len(initial_positions[1]), n)
    IN  [proposed |-> proposed_positions,
         prob_current |-> prob_current,
         prob_proposed |-> prob_proposed,
         unif |-> unif,
         gen |-> next_gen,
         accept |-> AcceptMask(unif, log_accept_prob)]

\* a step that counts only the steps that moved a particle
MetropolisStep_DeltaOnAccept(fn, n_accepted, st, sd, scl, a) ==
    LET dr == StepDraw(st, sd, scl, a)
        r == IF fn = "accept_jax"
             THEN accept_jax(n_accepted, dr.accept, st.positions, dr.proposed,
                             dr.prob_current, dr.prob_proposed)
             ELSE accept_numpy(n_accepted, dr.accept, st.positions, dr.proposed,
                               dr.prob_current, dr.prob_proposed)
    IN  [new_state |-> [positions |-> r.positions, logp |-> r.logp,
                        n_accepted |-> r.n_accepted,
                        delta |-> IF \E i \in 1 .. Len(dr.accept) : dr.accept[i]
                                  THEN st.delta + 1 ELSE st.delta],
         input_state |-> st,
         params |-> a]

\* a step that writes the new positions and logp into the arrays of the
\* state it was given
MetropolisStep_InPlace(fn, n_accepted, st, sd, scl, a) ==
    LET dr == StepDraw(st, sd, scl, a)
        r == IF fn = "accept_jax"
             THEN accept_jax(n_accepted, dr.accept, st.positions, dr.proposed,
                             dr.prob_current, dr.prob_proposed)
             ELSE accept_numpy(n_accepted, dr.accept, st.positions, dr.proposed,
                               dr.prob_current, dr.prob_proposed)
    IN  [new_state |-> [positions |-> r.positions, logp |-> r.logp,
                        n_accepted |-> r.n_accepted, delta |-> st.delta + 1],
         input_state |-> [st EXCEPT !.positions = r.positions, !.logp = r.logp],
         params |-> a]

\* step: what the call leaves behind.  new_state is the State it returns,
\* input_state the object that was passed in, params the model's parameters.
MetropolisStep(fn, n_accepted, st, sd, scl, a) ==
    LET dr == StepDraw(st, sd, scl, a)
        r == IF fn = "accept_jax"
             THEN accept_jax(n_accepted, dr.accept, st.positions, dr.proposed,
                             dr.prob_current, dr.prob_proposed)
             ELSE accept_numpy(n_accepted, dr.accept, st.positions, dr.proposed,
                               dr.prob_current, dr.prob_proposed)
    IN  [new_state |-> [positions |-> r.positions, logp |-> r.logp,
                        n_accepted |-> r.n_accepted, delta |-> st.delta + 1],
         input_state |-> st,
         params |-> a]

\* ------------------------------------------------- optimizers.gd (Gd)
\* step(current, grads): current - eta * grads, broadcasting an alpha of
\* shape (1,) against the gradient of the batch
GdStep(e, current, grads) ==
    [b \in 1 .. Len(grads) |->
        (IF Len(current) = 1 THEN current[1] ELSE current[b]) - e * grads[b]]

\* ------------------------------------------------------- initial state
NoAlg == [exists |-> FALSE, params |-> <<>>, rng |-> 0, N |-> 0, subkeys |-> <<>>,
          drawn |-> <<>>, eo |-> [beta |-> 0, r |-> <<>>, value |-> <<>>],
          state |-> [positions |-> <<>>, logp |-> [shape |-> <<0>>, v |-> <<>>],
                     n_accepted |-> 0, delta |-> 0]]

NoChain == [started |-> FALSE, seed |-> 0, n_accepted |-> 0, traj |-> <<>>]

NoStep == [chain |-> 0]

IdleTrain == [pc |-> "idle", max_iter |-> 0, batch |-> 0, iteration |-> 0,
              samples |-> 0, opt_steps |-> 0, reads |-> <<>>, returns |-> <<>>]

Call(op, unsupported, error) == [op |-> op, unsupported |-> unsupported, error |-> error]

Init ==
    /\ qs = [constructed |-> FALSE, backend |-> "", seed |-> 0, init_alpha |-> 0,
             initialized |-> FALSE, trained |-> FALSE, hamiltonian |-> "None",
             mcmc_alg |-> "None", sampler |-> "unset", optimizer |-> "None",
             eta |-> -1, alpha |-> <<>>, wf |-> "None", training_cycles |-> -1]
    /\ alg = NoAlg
    /\ train = IdleTrain
    /\ lastCall = Call("none", FALSE, "none")
    /\ met = [accept_fn |-> "none", scale |-> 0]
    /\ chain = [c \in Chains |-> NoChain]
    /\ last = NoStep
    /\ used = {}

\* The program is single-threaded: nothing runs during a train call.  The
\* orchestrator's calls and the direct use of a Metropolis instance touch
\* disjoint state (set_wf apart), so they are explored one after the other.
Orchestrating == train.pc = "idle" /\ met.accept_fn = "none"

\* a run is followed up to the end of one training: the set_* calls come
\* before it
Configuring == Orchestrating /\ ~qs.trained

\* ------------------------------------------------- QS (quantum_state.py)
\* QS.__init__
QSInit(b, s, a) ==
    /\ ~qs.constructed
    /\ train.pc = "idle"
    /\ IF b \in {"numpy", "jax"}
       THEN /\ qs' = [qs EXCEPT !.constructed = TRUE, !.backend = b, !.seed = s,
                                !.init_alpha = a]
            /\ lastCall' = Call("QS", FALSE, "none")
       ELSE /\ qs' = qs
            /\ lastCall' = Call("QS", TRUE, "ValueError")
    /\ UNCHANGED <<alg, train, met, chain, last, used>>

\* _initialize_vars on an instance v: self.rng is split and the sub-key
\* drawn from; self.rng itself is left as it was
InitializeVars(v, n, d) ==
    [v EXCEPT !.N = n,
              !.state = InitialState(v.rng, n, d, v.params),
              !.subkeys = Append(@, Split(v.rng)[2])]

\* VMC.__init__, which calls _initialize_vars, followed by the second
\* _initialize_vars of set_wf
NewVMC(b, s, a, n) ==
    LET created == [NoAlg EXCEPT !.exists = TRUE, !.params = InitialParams(a),
                                 !.rng = PRNGKey(s)]
    IN  InitializeVars(InitializeVars(created, n, Dim), n, Dim)

\* a set_wf that raises the flag before it checks the wave-function type
SetWf_FlagBeforeCheck(wf_type, n) ==
    /\ qs.constructed
    /\ Configuring
    /\ ConfigureBackendOk(qs.backend)
    /\ alg' = NewVMC(qs.backend, qs.seed, qs.init_alpha, n)
    /\ IF wf_type = "vmc"
       THEN /\ qs' = [qs EXCEPT !.alpha = alg'.params, !.wf = "vmc", !.initialized = TRUE]
            /\ lastCall' = Call("set_wf", FALSE, "none")
       ELSE /\ qs' = [qs EXCEPT !.alpha = alg'.params, !.initialized = TRUE]
            /\ lastCall' = Call("set_wf", TRUE, "ValueError")
    /\ UNCHANGED <<train, met, chain, last, used>>

\* QS.set_wf
SetWf(wf_type, n) ==
    /\ qs.constructed
    /\ Configuring
    /\ ConfigureBackendOk(qs.backend)
    /\ alg' = NewVMC(qs.backend, qs.seed, qs.init_alpha, n)
    /\ IF wf_type = "vmc"
       THEN /\ qs' = [qs EXCEPT !.alpha = alg'.params, !.wf = "vmc", !.initialized = TRUE]
            /\ lastCall' = Call("set_wf", FALSE, "none")
       ELSE /\ qs' = [qs EXCEPT !.alpha = alg'.params]
            /\ lastCall' = Call("set_wf", TRUE, "ValueError")
    /\ UNCHANGED <<train, met, chain, last, used>>

\* QS.set_hamiltonian
SetHamiltonian(type_) ==
    /\ qs.constructed
    /\ Configuring
    /\ IF ~alg.exists
       THEN /\ qs' = qs
            /\ lastCall' = Call("set_hamiltonian", type_ \notin {"ho", "eo"}, "AttributeError")
       ELSE IF type_ \in {"ho", "eo"}
       THEN /\ qs' = [qs EXCEPT !.hamiltonian = type_]
            /\ lastCall' = Call("set_hamiltonian", FALSE, "none")
       ELSE /\ qs' = qs
            /\ lastCall' = Call("set_hamiltonian", TRUE, "ValueError")
    /\ UNCHANGED <<alg, train, met, chain, last, used>>

\* QS.set_sampler.  The call Metro(vmc_instance, hami, rng, scale, N, dim,
\* seed, log, logger, logger_level, backend) passes eleven positional
\* arguments to Metropolis.__init__, which takes ten: TypeError.
SetSampler(mcmc_alg) ==
    /\ qs.constructed
    /\ Configuring
    /\ IF ~alg.exists
       THEN /\ qs' = [qs EXCEPT !.mcmc_alg = mcmc_alg]
            /\ lastCall' = Call("set_sampler", mcmc_alg \notin {"m", "mh"}, "AttributeError")
       ELSE IF mcmc_alg = "m"
       THEN /\ qs' = [qs EXCEPT !.mcmc_alg = mcmc_alg]
            /\ lastCall' = Call("set_sampler", FALSE, "TypeError")
       ELSE IF mcmc_alg = "mh"
       THEN /\ qs' = [qs EXCEPT !.mcmc_alg = mcmc_alg, !.sampler = "mh"]
            /\ lastCall' = Call("set_sampler", FALSE, "none")
       ELSE /\ qs' = [qs EXCEPT !.mcmc_alg = mcmc_alg]
            /\ lastCall' = Call("set_sampler", TRUE, "ValueError")
    /\ UNCHANGED <<alg, train, met, chain, last, used>>

\* QS.set_optimizer
SetOptimizer(optimizer, e) ==
    /\ qs.constructed
    /\ Configuring
    /\ IF optimizer = "gd"
       THEN /\ qs' = [qs EXCEPT !.eta = e, !.optimizer = "gd"]
            /\ lastCall' = Call("set_optimizer", FALSE, "none")
       ELSE /\ qs' = [qs EXCEPT !.eta = e]
            /\ lastCall' = Call("set_optimizer", TRUE, "ValueError")
    /\ UNCHANGED <<alg, train, met, chain, last, used>>

\* the batch a sample call returns: batch_size configurations of N x Dim
\* coordinates, entry b with every coordinate equal to cs[b]
Batch(cs, n) == [b \in 1 .. Len(cs) |-> [i \in 1 .. n |-> [j \in 1 .. Dim |-> cs[b]]]]

\* QS.train up to its loop: the initialized check and the loop bounds
Train(max_iter, batch_size) ==
    /\ qs.constructed
    /\ Configuring
    /\ IF ~qs.initialized
       THEN /\ lastCall' = Call("train", FALSE, "NotInitialized")
            /\ UNCHANGED <<qs, train>>
       ELSE /\ qs' = [qs EXCEPT !.training_cycles = max_iter]
            /\ train' = [IdleTrain EXCEPT !.pc = "loop", !.max_iter = max_iter,
                                          !.batch = batch_size]
            /\ lastCall' = Call("train", FALSE, "running")
    /\ UNCHANGED <<alg, met, chain, last, used>>

\* one iteration of the loop of QS.train: self.sample, alg.grads, the
\* optimizer step, the assignment to self.alpha
TrainIteration(cs) ==
    /\ train.pc = "loop"
    /\ train.iteration < train.max_iter
    /\ Len(cs) = train.batch
    /\ IF qs.eta = -1 \/ qs.sampler = "unset"
       THEN \* sample: system_info reads self._eta, then self.sampler.sample
            /\ train' = [train EXCEPT !.pc = "idle"]
            /\ lastCall' = Call("train", FALSE, "AttributeError")
            /\ qs' = qs
       ELSE IF qs.optimizer = "None"
       THEN \* sampled, then None.step
            /\ train' = [train EXCEPT !.pc = "idle", !.samples = @ + 1,
                                      !.reads = Append(@, alg.params)]
            /\ lastCall' = Call("train", FALSE, "AttributeError")
            /\ qs' = qs
       ELSE LET sampled_positions == Batch(cs, alg.N)
                grads_alpha == grads_closure(sampled_positions, alg.params)
                new_alpha == GdStep(qs.eta, qs.alpha, grads_alpha)
            IN  /\ qs' = [qs EXCEPT !.alpha = new_alpha]
                /\ train' = [train EXCEPT !.iteration = @ + 1, !.samples = @ + 1,
                                          !.opt_steps = @ + 1,
                                          !.reads = Append(@, alg.params),
                                          !.returns = Append(@, new_alpha)]
                /\ lastCall' = lastCall
    /\ UNCHANGED <<alg, met, chain, last, used>>

\* a loop that leaves one iteration early
TrainDone_OffByOne ==
    /\ train.pc = "loop"
    /\ train.iteration + 1 >= train.max_iter
    /\ qs' = [qs EXCEPT !.trained = TRUE]
    /\ train' = [train EXCEPT !.pc = "idle"]
    /\ lastCall' = Call("train", FALSE, "none")
    /\ UNCHANGED <<alg, met, chain, last, used>>

\* the end of QS.train
TrainDone ==
    /\ train.pc = "loop"
    /\ train.iteration = train.max_iter
    /\ qs' = [qs EXCEPT !.trained = TRUE]
    /\ train' = [train EXCEPT !.pc = "idle"]
    /\ lastCall' = Call("train", FALSE, "none")
    /\ UNCHANGED <<alg, met, chain, last, used>>

\* QS.sample called by the user
Sample ==
    /\ qs.constructed
    /\ Orchestrating
    /\ lastCall' = Call("sample", FALSE,
                        IF ~qs.initialized THEN "NotInitialized"
                        ELSE IF qs.eta = -1 \/ qs.training_cycles = -1
                                \/ qs.sampler = "unset" THEN "AttributeError"
                        ELSE "none")
    /\ UNCHANGED <<qs, alg, train, met, chain, last, used>>

\* ------------------------------------- a Metropolis instance used directly
\* The state of QS right after set_wf: nothing else configured yet
Pristine ==
    /\ alg.exists
    /\ train.pc = "idle"
    /\ lastCall.op = "set_wf"
    /\ qs.hamiltonian = "None" /\ qs.mcmc_alg = "None" /\ qs.eta = -1
    /\ qs.training_cycles = -1 /\ ~qs.trained

\* VMC.generate_normal_matrix(n, m) on the instance set_wf built: self.rng
\* becomes the first half of the split, the matrix is drawn from the second
GenerateNormalMatrix(n, m) ==
    /\ Pristine \/ (alg.exists /\ lastCall.op = "generate_normal_matrix")
    /\ met.accept_fn = "none"
    /\ Len(alg.subkeys) < 2 + MaxDraws
    /\ LET subkey == Split(alg.rng)[2] IN
       /\ alg' = [alg EXCEPT !.rng = Split(alg.rng)[1], !.subkeys = Append(@, subkey),
                              !.drawn = Normal(subkey, n, m)]
       /\ lastCall' = Call("generate_normal_matrix", FALSE, "none")
    /\ UNCHANGED <<qs, train, met, chain, last, used>>

\* VMC.wf_eo(r) on an instance whose beta attribute is beta (as set by
\* VMC(..., beta=beta)): wf_closure_eo(r, alpha) with the instance's alpha
WfEo(beta, r) ==
    /\ Pristine \/ (alg.exists /\ lastCall.op = "wf_eo")
    /\ met.accept_fn = "none"
    /\ Len(r) = alg.N
    /\ alg' = [alg EXCEPT !.eo = [beta |-> beta, r |-> r,
                                   value |-> wf_closure_eo(r, alg.params, beta)]]
    /\ lastCall' = Call("wf_eo", FALSE, "none")
    /\ UNCHANGED <<qs, train, met, chain, last, used>>

\* Metropolis.__init__(alg_inst, rng, scale, n_particles, dim, seed, log,
\* backend=b)
MetropolisInit(b, scl) ==
    /\ Pristine
    /\ met.accept_fn = "none"
    /\ met' = [accept_fn |-> AcceptFnOf(b), scale |-> scl]
    /\ lastCall' = Call("Metropolis", b \notin {"numpy", "jax"}, "none")
    /\ UNCHANGED <<qs, alg, train, chain, last, used>>

\* a chain begins in the state built by _initialize_vars, with a seed and a
\* running count of zero
StartChain(c, s) ==
    /\ met.accept_fn # "none"
    /\ ~chain[c].started
    /\ chain' = [chain EXCEPT ![c] = [started |-> TRUE, seed |-> s, n_accepted |-> 0,
                                      traj |-> <<alg.state>>]]
    /\ UNCHANGED <<qs, alg, train, lastCall, met, last, used>>

InRange(m) == \A i \in 1 .. Len(m) : \A j \in 1 .. Len(m[i]) : Abs(m[i][j]) <= MaxCoord

\* one turn of the sampling loop: new_state = sampler.step(total_accepted,
\* alg.prob, state, seed); total_accepted = new_state.n_accepted
Step(c) ==
    /\ met.accept_fn # "none"
    /\ chain[c].started
    /\ Len(chain[c].traj) <= MaxSteps
    /\ LET st == chain[c].traj[Len(chain[c].traj)]
           dr == StepDraw(st, chain[c].seed, met.scale, alg.params)
           r == MetropolisStep(met.accept_fn, chain[c].n_accepted, st, chain[c].seed,
                               met.scale, alg.params)
       IN  /\ InRange(dr.proposed)
           /\ IF met.accept_fn = "unset"
              THEN \* self.accept_fn does not exist
                   /\ lastCall' = Call("step", FALSE, "AttributeError")
                   /\ UNCHANGED <<alg, chain, last, used>>
              ELSE /\ chain' = [chain EXCEPT ![c].traj = Append(@, r.new_state),
                                             ![c].n_accepted = r.new_state.n_accepted]
                   /\ alg' = [alg EXCEPT !.params = r.params]
                   /\ last' = [chain |-> c, n_accepted |-> chain[c].n_accepted, state |-> st,
                               seed |-> chain[c].seed, draw |-> dr,
                               new_state |-> r.new_state, input_state |-> r.input_state,
                               params_before |-> alg.params, params_after |-> r.params,
                               accept_fn |-> met.accept_fn]
                   /\ used' = used \cup {<<c, Len(chain[c].traj), chain[c].seed, st.delta>>}
                   /\ lastCall' = Call("step", FALSE, "none")
    /\ UNCHANGED <<qs, train, met>>

\* ------------------------------------------------------- the program
\* the orchestrator's calls.  Only the sampling layer reads the seed and the
\* positions drawn from it, so these runs are followed for one seed.
NextOrchestrator ==
    \/ \E b \in Backends, a \in 0 .. MaxAlpha : QSInit(b, 0, a)
    \/ \E t \in {"vmc", "rbm"}, n \in 1 .. MaxN : SetWf(t, n)
    \/ \E t \in {"ho", "eo", "lj"} : SetHamiltonian(t)
    \/ \E m \in {"m", "mh", "hmc"} : SetSampler(m)
    \/ \E o \in {"gd", "adam"}, e \in 0 .. MaxEta : SetOptimizer(o, e)
    \/ \E k \in 0 .. MaxIter, b \in 1 .. MaxBatch : Train(k, b)
    \/ \E b \in 1 .. MaxBatch : \E cs \in [1 .. b -> 0 .. 1] : TrainIteration(cs)
    \/ TrainDone
    \/ Sample

\* a wave function set up, then chains run with a Metropolis instance
NextSampler ==
    \/ \E b \in Backends, s \in Seeds, a \in 0 .. MaxAlpha : QSInit(b, s, a)
    \/ \E t \in {"vmc", "rbm"}, n \in 1 .. MaxN : SetWf(t, n)
    \/ \E b \in Backends : MetropolisInit(b, 1)
    \/ \E c \in Chains, s \in Seeds : StartChain(c, s)
    \/ \E c \in Chains : Step(c)

\* a wave function set up, then matrices drawn from the model's key
NextModel ==
    \/ \E b \in Backends, s \in Seeds, a \in 0 .. MaxAlpha : QSInit(b, s, a)
    \/ \E t \in {"vmc", "rbm"}, n \in 1 .. MaxN : SetWf(t, n)
    \/ \E n \in 1 .. MaxN, m \in 1 .. Dim : GenerateNormalMatrix(n, m)
    \/ \E beta \in 1 .. MaxBeta, n \in 1 .. MaxN :
          \E r \in [1 .. n -> [1 .. Dim -> -1 .. 1]] : WfEo(beta, r)

Next == NextOrchestrator \/ NextSampler \/ NextModel

Spec == Init /\ [][Next]_vars

\* the runs that only sample
SamplerSpec == Init /\ [][NextSampler]_vars

\* the runs that only use the model
ModelSpec == Init /\ [][NextModel]_vars

\* the runs of the orchestrator alone
OrchestratorSpec == Init /\ [][NextOrchestrator]_vars

\* the calls that lead to and make up a training: the Hamiltonian is not
\* read by train
NextTrain ==
    \/ \E b \in Backends, a \in 0 .. MaxAlpha : QSInit(b, 0, a)
    \/ \E t \in {"vmc", "rbm"}, n \in 1 .. MaxN : SetWf(t, n)
    \/ \E m \in {"m", "mh", "hmc"} : SetSampler(m)
    \/ \E o \in {"gd", "adam"}, e \in 0 .. MaxEta : SetOptimizer(o, e)
    \/ \E k \in 0 .. MaxIter, b \in 1 .. MaxBatch : Train(k, b)
    \/ \E b \in 1 .. MaxBatch : \E cs \in [1 .. b -> 0 .. 1] : TrainIteration(cs)
    \/ TrainDone

\* those runs, with the loop of train running on: train is one synchronous
\* call, its loop body and its exit are always taken
TrainFairSpec ==
    /\ Init /\ [][NextTrain]_vars
    /\ WF_vars(\E b \in 1 .. MaxBatch : \E cs \in [1 .. b -> 0 .. 1] : TrainIteration(cs))
    /\ WF_vars(TrainDone)

\* ------------------------------------------------------------ the claims
Stepped == last.chain # 0

NAccepted(accept) == Cardinality({i \in 1 .. Len(accept) : accept[i]})

\* C1: the positions a step returns have the shape of the input and row i is
\* the proposed row i if particle i was accepted, the current row i otherwise
C1_RowsSelected ==
    Stepped =>
        /\ Len(last.new_state.positions) = Len(last.state.positions)
        /\ \A i \in 1 .. Len(last.state.positions) :
              last.new_state.positions[i] =
                  IF last.draw.accept[i] THEN last.draw.proposed[i]
                  ELSE last.state.positions[i]

\* C2: the n_accepted a step returns is the n_accepted passed in plus the
\* number of particles accepted in the step
C2_CountCumulative ==
    Stepped =>
        last.new_state.n_accepted = last.n_accepted + NAccepted(last.draw.accept)

\* C3: particle i is accepted iff its own uniform draw is below
\* exp(logp_proposed[i] - logp_current[i]); a particle whose proposed
\* log-probability is not below its current one is always accepted
C3_PerParticleAccept ==
    Stepped =>
        \A i \in 1 .. Len(last.state.positions) :
            LET d == last.draw.prob_proposed[i] - last.draw.prob_current[i] IN
            /\ last.draw.accept[i] <=> LessExp(last.draw.unif[i], d)
            /\ d >= 0 => last.draw.accept[i]

C3_Witness ==
    /\ Stepped
    /\ Len(last.state.positions) = 2
    /\ \E i, j \in 1 .. 2 :
          /\ last.draw.accept[i] /\ ~last.draw.accept[j]
          /\ last.draw.unif[i] > last.draw.unif[j]

\* C4: the delta of the state a step returns is the input's delta plus 1,
\* so the k-th state of a chain has delta k - 1
C4_DeltaCounts ==
    /\ Stepped => last.new_state.delta = last.state.delta + 1
    /\ \A c \in Chains : \A k \in 1 .. Len(chain[c].traj) : chain[c].traj[k].delta = k - 1

C4_Witness ==
    \E c \in Chains :
        /\ Len(chain[c].traj) = MaxSteps + 1
        /\ Stepped /\ last.chain = c
        /\ NAccepted(last.draw.accept) = 0
        /\ chain[c].traj[2].positions # chain[c].traj[1].positions

\* row i of logp, whatever its rank
LogpRow(lp, i) ==
    IF Len(lp.shape) = 1 THEN <<lp.v[i]>>
    ELSE [j \in 1 .. lp.shape[2] |-> lp.v[(i - 1) * lp.shape[2] + j]]

\* C5: in every state of a chain logp[i] is the model's log-probability of
\* positions[i] under the model's current alpha
C5_LogpMatchesPositions ==
    \A c \in Chains : \A k \in 1 .. Len(chain[c].traj) :
        LET st == chain[c].traj[k]
            p == prob_closure(st.positions, alg.params)
        IN  /\ st.logp.shape[1] = Len(st.positions)
            /\ \A i \in 1 .. Len(st.positions) :
                  \A j \in 1 .. Len(LogpRow(st.logp, i)) : LogpRow(st.logp, i)[j] = p[i]

C7_NoSubstreamReuse ==
    \A e \in used : \A f \in used : e # f => <<e[3], e[4]>> # <<f[3], f[4]>>

\* C8: the alpha the model reads while an iteration of train samples is the
\* value the optimizer returned in the iteration before
C8_ModelReadsOptimizerResult ==
    \A k \in 2 .. Len(train.reads) :
        k - 1 <= Len(train.returns) => train.reads[k] = train.returns[k - 1]

\* C9: a step leaves the model's parameters and the state it was given as
\* they were
C9_StepFrame ==
    Stepped =>
        /\ last.params_after = last.params_before
        /\ alg.params = last.params_before
        /\ last.input_state = last.state

C9_Witness ==
    /\ Stepped
    /\ last.new_state.positions # last.state.positions
    /\ last.new_state.logp # last.state.logp
    /\ last.input_state = last.state

\* C10: every unsupported choice raises in the call that receives it
C10_UnsupportedRaises == lastCall.unsupported => lastCall.error # "none"

\* C11: the initialized flag changes only by becoming true in a set_wf call
\* that returns normally; while it is false, a train or sample call raises
\* NotInitialized and leaves the system, the model and the training loop
\* untouched (no sampling step, no parameter update)
C11_NotInitializedRaises ==
    [][/\ qs'.initialized # qs.initialized =>
             (qs'.initialized /\ lastCall'.op = "set_wf" /\ lastCall'.error = "none")
       /\ (~qs.initialized /\ lastCall'.op \in {"train", "sample"}) =>
             (lastCall'.error = "NotInitialized" /\ UNCHANGED <<qs, alg, train>>)]_vars

C11_Witness ==
    /\ alg.exists /\ qs.wf = "None" /\ ~qs.initialized
    /\ lastCall = Call("train", FALSE, "NotInitialized")
    /\ train.samples = 0 /\ train.opt_steps = 0

\* what a train call that has ended, or is running, has done: as many sample
\* calls and optimizer steps as iterations, never more than max_iter, and
\* the trained flag exactly when all max_iter iterations are done
TrainCounts ==
    /\ train.pc = "loop" =>
          /\ train.samples = train.iteration /\ train.opt_steps = train.iteration
          /\ train.iteration <= train.max_iter
          /\ ~qs.trained
    /\ qs.trained =>
          /\ train.iteration = train.max_iter
          /\ train.samples = train.max_iter /\ train.opt_steps = train.max_iter
    /\ lastCall = Call("train", FALSE, "none") => qs.trained
    /\ (qs.initialized /\ lastCall.op = "train" /\ train.pc = "idle"
          /\ qs.training_cycles = 0) =>
             (qs.trained /\ train.samples = 0 /\ train.opt_steps = 0)

\* a train call has ended
TrainEnded == lastCall.op = "train" /\ train.pc = "idle"

C13_AcceptFunctionsAgree ==
    Stepped =>
        accept_jax(last.n_accepted, last.draw.accept, last.state.positions,
                   last.draw.proposed, last.draw.prob_current, last.draw.prob_proposed)
        = accept_numpy(last.n_accepted, last.draw.accept, last.state.positions,
                       last.draw.proposed, last.draw.prob_current, last.draw.prob_proposed)

\* C14: along a chain n_accepted never decreases, and after k steps it lies
\* between 0 and k * N
C14_CountMonotoneBounded ==
    \A c \in Chains : \A k \in 1 .. Len(chain[c].traj) :
        /\ 0 <= chain[c].traj[k].n_accepted
        /\ chain[c].traj[k].n_accepted <= (k - 1) * alg.N
        /\ k > 1 => chain[c].traj[k].n_accepted >= chain[c].traj[k - 1].n_accepted

\* C15: no sub-key is drawn from twice: not by two _initialize_vars calls,
\* not by _initialize_vars and a later generate_normal_matrix call, not by
\* two generate_normal_matrix calls
C15_SubkeysFresh ==
    \A i \in 1 .. Len(alg.subkeys) : \A j \in 1 .. Len(alg.subkeys) :
        i # j => alg.subkeys[i] # alg.subkeys[j]

\* C16: the anisotropic log-amplitude of particle i is what wf_closure_eo
\* gives for particle i alone, and with beta = 1 the anisotropic
\* log-amplitude is the isotropic one
C16_EoPerParticle ==
    alg.eo.beta # 0 =>
        /\ \A i \in 1 .. Len(alg.eo.r) :
              alg.eo.value[i] = wf_closure_eo(<<alg.eo.r[i]>>, alg.params, alg.eo.beta)[1]
        /\ alg.eo.beta = 1 => alg.eo.value = wf_closure(alg.eo.r, alg.params)

====
